---- MODULE Spec2Model ----
(***************************************************************************)
(* Trajectory cache and access layer of viamd (load::traj in loader.cpp).  *)
(*                                                                         *)
(* The model keeps the registry of open trajectories as the code keeps it: *)
(* a fixed array loaded_trajectories[8] with a count, entries held by      *)
(* value, and every handle (md_trajectory_i) carrying in `inst` the        *)
(* ADDRESS OF THE ARRAY SLOT its entry was allocated in.  Heap objects     *)
(* (backend instance, frame cache storage) are referenced by id and carry  *)
(* a liveness flag, so a use after free is visible.                        *)
(*                                                                         *)
(* ASSERT is compiled in only in debug builds: debug_build is chosen in    *)
(* Init, a failing ASSERT aborts the process in a debug build and is a     *)
(* no-op in a release build.                                               *)
(*                                                                         *)
(* Coordinates are one integer per atom (one axis; the code treats x, y    *)
(* and z alike), and only the first MaxTracked atoms of a frame are kept.  *)
(*                                                                         *)
(* The format registry and the loader state (namespace load) are modelled  *)
(* beside it: extensions are character sequences, so that str_eq and       *)
(* str_eq_ignore_case differ, and argument blobs live on a heap of their   *)
(* own.                                                                    *)
(*                                                                         *)
(* The range slider of loader.h (ImGui::RangeSliderFloat and               *)
(* RangeSliderBehavior) is modelled frame by frame for an integer slider   *)
(* (decimal precision 0) whose geometry makes every float operation of the *)
(* code exact, so that integer arithmetic computes what the code computes. *)
(***************************************************************************)
EXTENDS Integers, Sequences, FiniteSets, TLC

(* ------------------------------ bounds --------------------------------- *)
\* open_file calls that reach loader->create successfully (heap ids handed out)
MaxOpens == 3
\* load_frame and reconfiguration calls made, together
MaxCalls == 2
\* opens, load_frame calls, reconfiguration calls, and calls of the last two together,
\* of the reconfiguration specification
MaxReconfOpens == 2
MaxReconfLoads == 1
MaxReconf == 1
MaxReconfCalls == 2
\* the same four bounds of the cache specification
MaxCacheOpens == 1
MaxCacheLoads == 2
MaxCacheReconf == 1
MaxCacheCalls == 2
\* the same four bounds of the handles specification
MaxHandleOpens == 3
MaxHandleLoads == 2
MaxHandleReconf == 2
MaxHandleCalls == 3
\* the same four bounds of the settings specification
MaxSettingsOpens == 1
MaxSettingsLoads == 2
MaxSettingsReconf == 2
MaxSettingsCalls == 4
\* worker threads calling load_frame concurrently
NumThreads == 2
\* closes allowed in the registry specification
MaxCapCloses == 1
\* coordinates kept per frame
MaxTracked == 2
\* argument blobs outstanding at once, and opens of the loader-state specification
MaxBlobs == 2
MaxLoaderOpens == 1
\* opens and decode calls of the blob specification
MaxFetchOpens == 1
MaxFetchLoads == 2
\* opens, set_recenter_target calls and load_frame calls of the mask specification
MaxMaskOpens == 1
MaxMaskReconf == 2
MaxMaskLoads == 2
\* opens of the empty-molecule specification
MaxEmptyOpens == 3
\* opens, load_frame calls and reconfiguration calls of the reopen specification
MaxFreshOpens == 3
MaxFreshLoads == 1
MaxFreshReconf == 1
\* opens and load_frame calls of the specification with fair scheduling
MaxLiveOpens == 3
MaxLiveLoads == 2
\* opens, load_frame calls, reconfiguration calls and the last two together of the
\* specification with large molecules
MaxHugeOpens == 2
MaxHugeLoads == 2
MaxHugeReconf == 1
MaxHugeCalls == 2

(* ------------------------- program constants --------------------------- *)
\* ARRAY_SIZE(loaded_trajectories)
ARRAY_SIZE == 8
\* NUM_ENTRIES of the format table
NUM_ENTRIES == 9
\* MEGABYTES(4), the lower clamp of the frame cache size
MinCacheBytes == 4194304
\* sizeof(float) * 3, bytes per atom of approx_frame_size
BytesPerAtom == 12

NULL == 0

Min(a, b) == IF a < b THEN a ELSE b
Max(a, b) == IF a > b THEN a ELSE b
\* CLAMP(v, lo, hi)
CLAMP(v, lo, hi) == Min(Max(v, lo), hi)

(* ------------------------------- strings ------------------------------- *)
\* A str_t is the sequence of its characters
Upper == <<"A", "B", "C", "D", "E", "F", "G", "H", "I", "J", "K", "L", "M",
           "N", "O", "P", "Q", "R", "S", "T", "U", "V", "W", "X", "Y", "Z">>
Lower == <<"a", "b", "c", "d", "e", "f", "g", "h", "i", "j", "k", "l", "m",
           "n", "o", "p", "q", "r", "s", "t", "u", "v", "w", "x", "y", "z">>

\* to_lower: an upper-case letter becomes its lower-case letter, any other byte stays
LowerOf == [c \in {Upper[i] : i \in DOMAIN Upper} |->
              Lower[CHOOSE i \in DOMAIN Upper : Upper[i] = c]]
to_lower(c) == IF c \in DOMAIN LowerOf THEN LowerOf[c] ELSE c

\* str_eq: same length and the same bytes
str_eq(a, b) == Len(a) = Len(b) /\ \A i \in 1..Len(a) : a[i] = b[i]

\* str_eq_ignore_case: same length and the same bytes once both are lower-cased
str_eq_ignore_case(a, b) ==
  Len(a) = Len(b) /\ \A i \in 1..Len(a) : to_lower(a[i]) = to_lower(b[i])

\* extract_tokens_delim(tok, ARRAY_SIZE(tok), &exts, delim): the tokens of s between delimiters
RECURSIVE extract_tokens_delim(_, _)
extract_tokens_delim(s, delim) ==
  IF s = <<>> THEN <<>>
  ELSE LET n == IF \E i \in 1..Len(s) : s[i] = delim
                THEN CHOOSE i \in 1..Len(s) : s[i] = delim /\ \A j \in 1..(i-1) : s[j] # delim
                ELSE Len(s) + 1
       IN <<SubSeq(s, 1, n - 1)>> \o extract_tokens_delim(SubSeq(s, n + 1, Len(s)), delim)

(* --------------------------- format table ------------------------------ *)
\* enum mol_loader_t
MOL_LOADER_UNKNOWN == 0
MOL_LOADER_PDB == 1
MOL_LOADER_GRO == 2
MOL_LOADER_XYZ == 3
MOL_LOADER_CIF == 4
MOL_LOADER_LAMMPS == 5
MOL_LOADER_COUNT == 6

\* mol_loader_ext[1..MOL_LOADER_COUNT-1] (entry 0 is the empty string)
mol_loader_ext ==
  << <<"p", "d", "b">>,
     <<"g", "r", "o">>,
     <<"x", "y", "z", ";", "x", "m", "o", "l", ";", "a", "r", "c">>,
     <<"c", "i", "f">>,
     <<"d", "a", "t", "a">> >>

\* mol_loader_api[1..MOL_LOADER_COUNT-1] (entry 0 is NULL)
mol_loader_api ==
  <<"md_pdb_molecule_api", "md_gro_molecule_api", "md_xyz_molecule_api",
    "md_mmcif_molecule_api", "md_lammps_molecule_api">>

\* enum traj_loader_t
TRAJ_LOADER_UNKNOWN == 0
TRAJ_LOADER_COUNT == 5

\* traj_loader_ext[1..TRAJ_LOADER_COUNT-1]
traj_loader_ext ==
  << <<"p", "d", "b">>,
     <<"x", "t", "c">>,
     <<"t", "r", "r">>,
     <<"x", "y", "z", ";", "x", "m", "o", "l", ";", "a", "r", "c">> >>

\* traj_loader_api[1..TRAJ_LOADER_COUNT-1]
traj_loader_api ==
  <<"md_pdb_trajectory_loader", "md_xtc_trajectory_loader",
    "md_trr_trajectory_loader", "md_xyz_trajectory_loader">>

\* table.ext
table_ext ==
  << <<"p", "d", "b">>, <<"g", "r", "o">>, <<"x", "t", "c">>, <<"t", "r", "r">>,
     <<"x", "y", "z">>, <<"x", "m", "o", "l">>, <<"a", "r", "c">>, <<"c", "i", "f">>,
     <<"d", "a", "t", "a">> >>

\* table.mol_loader ("NULL" where the entry has no molecule backend)
table_mol_loader ==
  <<"md_pdb_molecule_api", "md_gro_molecule_api", "NULL", "NULL",
    "md_xyz_molecule_api", "md_xyz_molecule_api", "md_xyz_molecule_api",
    "md_mmcif_molecule_api", "md_lammps_molecule_api">>

\* table.traj_loader ("NULL" where the entry has no trajectory backend)
table_traj_loader ==
  <<"md_pdb_trajectory_loader", "NULL", "md_xtc_trajectory_loader",
    "md_trr_trajectory_loader", "md_xyz_trajectory_loader",
    "md_xyz_trajectory_loader", "md_xyz_trajectory_loader", "NULL", "NULL">>

\* size_t num_tok = extract_tokens_delim(tok, ARRAY_SIZE(tok), &exts, ';') of every entry
Tokens(exts) == [i \in DOMAIN exts |-> extract_tokens_delim(exts[i], ";")]
mol_loader_tok == Tokens(mol_loader_ext)
traj_loader_tok == Tokens(traj_loader_ext)

\* for (i = 1; i < count; ++i) for (j < num_tok) if (str_eq_ignore_case(ext, tok[j])) return i
loader_from_ext_list(ext, tok, count, unknown) ==
  LET Match(i) == \E j \in DOMAIN tok[i] : str_eq_ignore_case(ext, tok[i][j])
      S == {i \in 1..(count - 1) : Match(i)}
  IN IF S # {} THEN CHOOSE i \in S : \A k \in S : i <= k ELSE unknown

\* load::mol_loader_from_ext with every comparison case-sensitive
mol_loader_from_ext_str_eq(ext) ==
  IF \E i \in 1..NUM_ENTRIES : str_eq(ext, table_ext[i]) /\ table_mol_loader[i] # "NULL"
  THEN CHOOSE k \in 1..(MOL_LOADER_COUNT - 1) :
         \E i \in 1..NUM_ENTRIES :
           str_eq(ext, table_ext[i]) /\ table_mol_loader[i] = mol_loader_api[k]
  ELSE MOL_LOADER_UNKNOWN

\* load::mol_loader_from_ext
mol_loader_from_ext(ext) ==
  loader_from_ext_list(ext, mol_loader_tok, MOL_LOADER_COUNT, MOL_LOADER_UNKNOWN)

\* load::traj_loader_from_ext
traj_loader_from_ext(ext) ==
  loader_from_ext_list(ext, traj_loader_tok, TRAJ_LOADER_COUNT, TRAJ_LOADER_UNKNOWN)

\* load::mol::loader_from_ext: first entry whose extension is str_eq to ext
mol_loader_from_table(ext) ==
  IF \E i \in 1..NUM_ENTRIES : str_eq(ext, table_ext[i])
  THEN table_mol_loader[CHOOSE i \in 1..NUM_ENTRIES :
         /\ str_eq(ext, table_ext[i])
         /\ \A j \in 1..(i-1) : ~str_eq(ext, table_ext[j])]
  ELSE "NULL"

\* load::traj::loader_from_ext: first entry whose extension is str_eq to ext
traj_loader_from_table(ext) ==
  IF \E i \in 1..NUM_ENTRIES : str_eq(ext, table_ext[i])
  THEN table_traj_loader[CHOOSE i \in 1..NUM_ENTRIES :
         /\ str_eq(ext, table_ext[i])
         /\ \A j \in 1..(i-1) : ~str_eq(ext, table_ext[j])]
  ELSE "NULL"

(* ----------------------------- environment ----------------------------- *)
\* The files on disk the callers open.  ext: the extension extract_ext finds
\* (<<>> when the path has none); format: the backend able to parse the file;
\* atoms, frames: what the created backend reports; bad: the frames whose
\* backend decode fails; box: the unit cell extent (0: the frames carry no cell).
Files ==
  { [name |-> "a.xtc",   ext |-> <<"x", "t", "c">>, format |-> "md_xtc_trajectory_loader",
     exists |-> TRUE,  atoms |-> 2, frames |-> 2, bad |-> {1}, box |-> 8],
    [name |-> "big.xtc", ext |-> <<"x", "t", "c">>, format |-> "md_xtc_trajectory_loader",
     exists |-> TRUE,  atoms |-> 349525, frames |-> 2, bad |-> {}, box |-> 0],
    [name |-> "gone.xtc", ext |-> <<"x", "t", "c">>, format |-> "md_xtc_trajectory_loader",
     exists |-> FALSE, atoms |-> 0, frames |-> 0, bad |-> {}, box |-> 0],
    [name |-> "c.gro",   ext |-> <<"g", "r", "o">>, format |-> "NULL",
     exists |-> TRUE,  atoms |-> 2, frames |-> 0, bad |-> {}, box |-> 0] }

NoFile == [name |-> "", ext |-> <<>>, format |-> "NULL", exists |-> FALSE,
           atoms |-> 0, frames |-> 0, bad |-> {}, box |-> 0]

\* The molecules callers pass to open_file: id -> atom.count
Mols == {1, 2}
MolAtomCount(m) ==
  IF m = 1 THEN 2 ELSE IF m = 2 THEN 349525 ELSE IF m = 4 THEN 349526 ELSE 0

\* The loader argument of open_file: NULL (look up by extension) or an explicit backend
LoaderArgs == {"NULL", "md_xtc_trajectory_loader"}

\* md_os_physical_ram() / 4 and MEGABYTES(VIAMD_FRAME_CACHE_SIZE) of the machine modelled:
\* 16 MiB of RAM, so that the cache holds exactly the 4 MiB minimum.
PhysicalRamQuarter == 4194304
ConfiguredCacheBytes == 536870912


(* ------------------------------ frame data ----------------------------- *)
\* Atoms of a frame whose coordinate the model keeps
Tracked(n) == 0..(Min(n, MaxTracked) - 1)

\* md_frame_data_t of a slot before anything was decoded into it
ZeroFrame(n) == [header |-> [num_atoms |-> 0, box |-> 0],
                 x |-> [a \in Tracked(n) |-> 0]]

\* What the backend's decode_frame_data writes for frame idx of file f
BackendFrame(f, idx) ==
  [header |-> [num_atoms |-> f.atoms, box |-> f.box],
   x |-> [a \in Tracked(f.atoms) |-> (7 * a + 3 * idx + 1) % 10]]

\* Backend decode_frame_data succeeds on the frames of the file that are intact
BackendDecodeOk(f, idx) == idx \in 0..(f.frames - 1) /\ idx \notin f.bad

\* Sum of x over a set of atoms
RECURSIVE SumX(_, _)
SumX(x, S) == IF S = {} THEN 0
              ELSE LET a == CHOOSE b \in S : TRUE IN x[a] + SumX(x, S \ {a})

\* Rounded division used for the periodic image count
RoundDiv(a, b) == (2 * a + b) \div (2 * b)

\* vec3_deperiodize(p, ref, ext): the periodic image of p nearest to ref
vec3_deperiodize(p, ref, ext) ==
  IF ext = 0 THEN p ELSE p - ext * RoundDiv(p - ref, ext)

\* md_util_com_compute / md_util_compute_com_ortho with unit masses
com_compute(x, indices) == SumX(x, indices) \div Cardinality(indices)

\* The recenter step of decode_frame_data: translate all atoms so that the
\* centre of the mask lies at box_ext/2 (cell present) or at the origin
Recenter(frame, mask) ==
  LET x == frame.x
      box_ext == frame.header.box
      have_cell == box_ext # 0
      idx == mask \cap DOMAIN x
      count == Cardinality(mask)
      com == IF count = 1
             THEN (IF idx = {} THEN 0 ELSE x[CHOOSE i \in idx : TRUE])
             ELSE IF idx = {} THEN 0
             ELSE IF have_cell
                  THEN vec3_deperiodize(com_compute(x, idx), box_ext \div 2, box_ext)
                  ELSE com_compute(x, idx)
      trans == IF have_cell THEN (box_ext \div 2) - com ELSE 0 - com
  IN IF mask = {} THEN frame
     ELSE [frame EXCEPT !.x = [a \in DOMAIN x |-> x[a] + trans]]

\* md_util_deperiodize_system on the molecule's single bonded structure: every
\* atom is moved to the periodic image nearest to the atom before it
RECURSIVE Unwrap(_, _, _)
Unwrap(x, a, box) ==
  IF a \notin DOMAIN x THEN x
  ELSE IF a = 0 THEN Unwrap(x, 1, box)
  ELSE Unwrap([x EXCEPT ![a] = vec3_deperiodize(x[a], x[a - 1], box)], a + 1, box)

Deperiodize(frame) == [frame EXCEPT !.x = Unwrap(frame.x, 0, frame.header.box)]

\* Post-decode transform of decode_frame_data (recenter, then deperiodize)
Transform(frame, mask, deperiodize) ==
  LET r == Recenter(frame, mask)
  IN IF deperiodize /\ frame.header.box # 0 THEN Deperiodize(r) ELSE r

\* The caller's buffers before the call wrote to them
NoData == [written |-> FALSE]

\* header and MEMCPY of num_atoms coordinates into the caller's buffers
CopyOut(frame) ==
  [written |-> TRUE, header |-> frame.header,
   x |-> [a \in {b \in DOMAIN frame.x : b < frame.header.num_atoms} |-> frame.x[a]]]


(* ----------------------------- range slider ---------------------------- *)
\* The arguments RangeSliderFloat is called with every frame and what it derives
\* from them: the ImGuiID of the label, the x extent of frame_bb, the value range,
\* and style.GrabMinSize.  power is 1 (linear), flags is 0 (horizontal) and the
\* display format has no decimals (decimal_precision = 0).
SliderArgs == [id |-> 1, frame_min_x |-> 0, frame_max_x |-> 54,
               v_min |-> 1, v_max |-> 5, GrabMinSize |-> 10]

grab_padding == 2
min_dist == 4

slider_sz == (SliderArgs.frame_max_x - SliderArgs.frame_min_x) - grab_padding * 2

\* Integer slider: the grab represents one unit if possible
grab_sz ==
  Min(Max(slider_sz \div ((SliderArgs.v_max - SliderArgs.v_min) + 1),
          SliderArgs.GrabMinSize),
      slider_sz)

slider_usable_sz == slider_sz - grab_sz
slider_usable_pos_min == SliderArgs.frame_min_x + grab_padding + grab_sz \div 2
slider_usable_pos_max == SliderArgs.frame_max_x - grab_padding - grab_sz \div 2

\* fabsf
fabsf(x) == IF x < 0 THEN -x ELSE x

\* RoundScalar(num / den, 0) of a value that is not negative: the remainder of the
\* division by the step 1 is dropped when it is at most half a step
RoundScalar(num, den) ==
  IF 2 * (num % den) <= den THEN num \div den ELSE num \div den + 1

\* The lambda compute_val for the mouse at x: the clicked ratio
\* clicked_t = t / slider_usable_sz, ImLerp(v_min, v_max, clicked_t), rounded
compute_val(x) ==
  LET t == IF slider_usable_sz > 0
           THEN CLAMP(x - slider_usable_pos_min, 0, slider_usable_sz)
           ELSE 0
  IN RoundScalar(SliderArgs.v_min * slider_usable_sz
                   + (SliderArgs.v_max - SliderArgs.v_min) * t,
                 slider_usable_sz)

\* ImLerp(slider_usable_pos_min, slider_usable_pos_max, t) for
\* t = SliderBehaviorCalcRatioFromValue(v, v_min, v_max, 1, linear_zero_pos), the
\* ratio of the clamped value in the range
GrabPos(v) ==
  slider_usable_pos_min
    + ((slider_usable_pos_max - slider_usable_pos_min)
         * (CLAMP(v, SliderArgs.v_min, SliderArgs.v_max) - SliderArgs.v_min))
      \div (SliderArgs.v_max - SliderArgs.v_min)

\* A default constructed RangeSliderState
RangeSliderState ==
  [min_grab |-> FALSE, max_grab |-> FALSE, range_grab |-> FALSE,
   v1_diff |-> 0, v2_diff |-> 0]

\* Read state: the stored state of id, a default one if there is none
ReadState(states, id) ==
  IF id \in DOMAIN states THEN states[id] ELSE RangeSliderState

\* RangeSliderBehavior(frame_bb, id, v1, v2, v_min, v_max, 1, 0, 0) with the map
\* `states`, *v1 = a, *v2 = b, g.ActiveId = ActiveId and the mouse at x: the map,
\* the values and g.ActiveId it leaves, and what it returns
RangeSliderBehavior(states, a, b, ActiveId, MouseClicked, MouseDown, x) ==
  LET id == SliderArgs.id
      v_min == SliderArgs.v_min
      v_max == SliderArgs.v_max
      read == ReadState(states, id)
      p1 == GrabPos(a)
      p2 == GrabPos(b)
      val == compute_val(x)
      clicked == IF fabsf(x - p1) < min_dist
                 THEN [read EXCEPT !.min_grab = TRUE]
                 ELSE IF fabsf(x - p2) < min_dist
                 THEN [read EXCEPT !.max_grab = TRUE]
                 ELSE IF p1 < x /\ x < p2
                 THEN [read EXCEPT !.range_grab = TRUE,
                                   !.v1_diff = a - val, !.v2_diff = b - val]
                 ELSE read
      released == [read EXCEPT !.min_grab = FALSE, !.max_grab = FALSE,
                               !.range_grab = FALSE]
      v_diff == b - a
      c1 == CLAMP(val + read.v1_diff, v_min, v_max)
      c2 == CLAMP(val + read.v2_diff, v_min, v_max)
      r2 == IF c1 = v_min THEN c1 + v_diff ELSE c2
      r1 == IF r2 = v_max THEN r2 - v_diff ELSE c1
      out == IF ActiveId = id
             THEN IF MouseClicked
                  THEN [state |-> clicked, v1 |-> a, v2 |-> b, ActiveId |-> ActiveId,
                        value_changed |-> FALSE, branch |-> "clicked"]
                  ELSE IF MouseDown
                  THEN IF read.min_grab
                       THEN [state |-> read, v1 |-> val, v2 |-> b, ActiveId |-> ActiveId,
                             value_changed |-> TRUE, branch |-> "min_grab"]
                       ELSE IF read.max_grab
                       THEN [state |-> read, v1 |-> a, v2 |-> val, ActiveId |-> ActiveId,
                             value_changed |-> TRUE, branch |-> "max_grab"]
                       ELSE IF read.range_grab
                       THEN [state |-> read, v1 |-> r1, v2 |-> r2, ActiveId |-> ActiveId,
                             value_changed |-> TRUE, branch |-> "range_grab"]
                       ELSE [state |-> read, v1 |-> a, v2 |-> b, ActiveId |-> ActiveId,
                             value_changed |-> FALSE, branch |-> "down"]
                  ELSE [state |-> released, v1 |-> a, v2 |-> b, ActiveId |-> NULL,
                        value_changed |-> FALSE, branch |-> "released"]
             ELSE [state |-> released, v1 |-> a, v2 |-> b, ActiveId |-> ActiveId,
                   value_changed |-> FALSE, branch |-> "inactive"]
  IN [states |-> [i \in DOMAIN states \cup {id} |->
                    IF i = id THEN out.state ELSE states[i]],
      v1 |-> out.v1, v2 |-> out.v2, ActiveId |-> out.ActiveId,
      value_changed |-> out.value_changed, branch |-> out.branch]

\* Positions of the mouse along the slider's axis: every pixel of the frame and one
\* on either side of it
MousePos == (SliderArgs.frame_min_x - 1)..SliderArgs.frame_max_x

(* -------------------------------- state -------------------------------- *)
VARIABLES
  debug_build,              \* TRUE: ASSERT is compiled in
  status,                   \* "running", or how the process ended
  loaded_trajectories,      \* the array, slot -> LoadedTrajectory (by value)
  num_loaded_trajectories,
  trajs,                    \* heap: handle id -> md_trajectory_i (inst = slot address)
  backends,                 \* heap: backend instance id -> [file, live]
  caches,                   \* heap: frame cache id -> [live, slots]
  next_id,                  \* next heap id the allocator hands out
  threads,                  \* per worker thread: its load_frame call
  n_loads,                  \* load_frame calls started
  n_reconf,                 \* reconfiguration calls made
  ret,                      \* the last serialized API call and what it returned
  state,                    \* the caller's LoaderState
  blobs,                    \* heap: allocations made through init_loader_state's allocator
  range_slider_states,      \* the map ImGuiID -> RangeSliderState
  v1,                       \* the caller's float the slider edits through *v1
  v2,                       \* the same for *v2
  GImGui                    \* ImGui context: ActiveId and IO.MouseDown[0] of the last frame

\* The variables of the range slider
slider_vars == <<range_slider_states, v1, v2, GImGui>>

vars == <<debug_build, status, loaded_trajectories, num_loaded_trajectories, trajs,
          backends, caches, next_id, threads, n_loads, n_reconf, ret, state, blobs,
          slider_vars>>

Slots == 0..(ARRAY_SIZE - 1)
\* Heap ids: enough for the registry to be filled once more than it holds
HeapSize == ARRAY_SIZE + 1 + MaxCapCloses + MaxOpens
Ids == 1..HeapSize
Threads == 1..NumThreads
\* A pointer open_file never returns
ForeignHandle == HeapSize + 1
\* Handle pointers callers pass: every handle open_file returned, and a foreign one
HandleArgs == {h \in Ids : trajs[h].alloc} \cup {ForeignHandle}
\* Frame indices callers ask for
IdxArgs == 0..2
\* Masks callers pass to set_recenter_target ("null": a null pointer)
MaskArgs == {"null", "m0", "m01"}
MaskBits(m) == IF m = "m0" THEN {0} ELSE IF m = "m01" THEN {0, 1}
               ELSE IF m = "m5" THEN {5} ELSE {}

\* *traj = {0}
ZeroEntry == [key |-> NULL, mol |-> NULL, loader |-> "NULL", traj |-> NULL,
              cache |-> NULL, recenter_target |-> {}, deperiodize |-> FALSE]

NoThread == 0
NoSlot == 0

\* LoaderState with every member 0
ZeroState == [mol_loader |-> "NULL", traj_loader |-> "NULL", mol_loader_arg |-> NULL,
              flags |-> 0, data_size |-> 0, data_ptr |-> NULL]
\* Addresses md_alloc hands out for argument blobs
BlobIds == 1..MaxBlobs

IdleThread == [pc |-> "idle", h |-> NULL, inst |-> -1, idx |-> 0, slot |-> NoSlot,
               in_cache |-> FALSE, result |-> TRUE, out |-> NoData,
               cache |-> NULL, decoded |-> FALSE, conc |-> {},
               disturbed |-> FALSE]

\* The slider before its first frame: nothing stored for its id, no active widget,
\* the button up, and the caller's values a and b
SliderStart(a, b) ==
  /\ range_slider_states = << >>
  /\ GImGui = [ActiveId |-> NULL, MouseDown |-> FALSE]
  /\ v1 = a
  /\ v2 = b

\* The state of namespace load before its first call
LoaderInit ==
  /\ debug_build \in BOOLEAN
  /\ status = "running"
  /\ loaded_trajectories = [i \in Slots |-> ZeroEntry]
  /\ num_loaded_trajectories = 0
  /\ trajs = [h \in Ids |-> [alloc |-> FALSE, inst |-> -1]]
  /\ backends = [b \in Ids |-> [file |-> NoFile, live |-> FALSE]]
  /\ caches = [c \in Ids |-> [live |-> FALSE, slots |-> <<>>]]
  /\ next_id = 1
  /\ threads = [t \in Threads |-> IdleThread]
  /\ n_loads = 0
  /\ n_reconf = 0
  /\ ret = [op |-> "none", returned |-> TRUE, value |-> NULL, log |-> ""]
  /\ state = ZeroState
  /\ blobs = [b \in BlobIds |-> [alloc |-> FALSE, arg |-> ""]]

Init ==
  /\ LoaderInit
  /\ SliderStart(SliderArgs.v_min, SliderArgs.v_max)

\* No load_frame call is in flight: open, close and the reconfiguration calls are
\* serialized by their callers against each other and against decodes
AllIdle == \A t \in Threads : threads[t].pc \in {"idle", "done"}

\* Handles that were closed
NumClosed == Cardinality({h \in Ids : trajs[h].alloc /\ trajs[h].inst = -1})

\* The registry proper: the count and the entries below it
Registry == [n |-> num_loaded_trajectories,
             e |-> [i \in 0..(num_loaded_trajectories - 1) |-> loaded_trajectories[i]]]

(* ------------------------------ registry ------------------------------- *)
\* Mutant: the scan runs over the whole array and falls back to slot 0
find_loaded_trajectory_any(key) ==
  IF \E i \in Slots : loaded_trajectories[i].key = key
  THEN CHOOSE i \in Slots : loaded_trajectories[i].key = key
  ELSE IF num_loaded_trajectories > 0 THEN 0 ELSE -1

\* find_loaded_trajectory: the first slot below the count holding key, -1 for nullptr
find_loaded_trajectory(key) ==
  IF \E i \in 0..(num_loaded_trajectories - 1) : loaded_trajectories[i].key = key
  THEN CHOOSE i \in 0..(num_loaded_trajectories - 1) :
         /\ loaded_trajectories[i].key = key
         /\ \A j \in 0..(i - 1) : loaded_trajectories[j].key # key
  ELSE -1

(* ----------------------------- frame cache ----------------------------- *)
FreeSlot(n) == [reserved |-> FALSE, populated |-> FALSE, frame_index |-> 0,
                writer |-> NoThread, readers |-> {}, data |-> ZeroFrame(n)]

\* md_frame_cache_init: num_cache_frames preallocated slots
md_frame_cache_init(num_cache_frames, atoms) ==
  [live |-> TRUE, slots |-> [s \in 1..num_cache_frames |-> FreeSlot(atoms)]]

\* The slots carrying frame index idx (reserved or populated)
Carrying(c, idx) ==
  {s \in DOMAIN c.slots : (c.slots[s].reserved \/ c.slots[s].populated)
                           /\ c.slots[s].frame_index = idx}

\* md_frame_cache_num_frames: the populated count
md_frame_cache_num_frames(c) ==
  Cardinality({s \in DOMAIN c.slots : c.slots[s].populated})

\* md_frame_cache_clear: drops all slots
md_frame_cache_clear(c) ==
  [c EXCEPT !.slots = [s \in DOMAIN c.slots |->
      [c.slots[s] EXCEPT !.reserved = FALSE, !.populated = FALSE]]]

\* Victims that are taken whoever holds a lock on them
Victims_locked(c) == DOMAIN c.slots

\* The victims find_or_reserve may take on a miss: the lowest free slot when there
\* is one, else any slot nobody holds a lock on (the eviction policy is left open)
Victims(c) ==
  LET free == {s \in DOMAIN c.slots : ~c.slots[s].reserved /\ ~c.slots[s].populated
                                       /\ c.slots[s].writer = NoThread
                                       /\ c.slots[s].readers = {}}
      idle == {s \in DOMAIN c.slots : c.slots[s].writer = NoThread
                                       /\ c.slots[s].readers = {}}
  IN IF free # {} THEN {CHOOSE s \in free : \A r \in free : s <= r} ELSE idle

\* md_frame_cache_frame_lock_release by thread t on slot s: a writer's release
\* leaves the slot it reserved populated
md_frame_cache_frame_lock_release(c, s, t) ==
  IF c.slots[s].writer = t
  THEN [c EXCEPT !.slots[s].writer = NoThread, !.slots[s].populated = TRUE,
                 !.slots[s].reserved = FALSE]
  ELSE [c EXCEPT !.slots[s].readers = @ \ {t}]


(* ------------------------------- logging ------------------------------- *)
\* The MD_LOG_ERROR messages
LogUnsupported == "Unsupported file extension"
LogIncompatible == "Trajectory is not compatible with the loaded molecule."
LogNotOwned == "Attempting to free trajectory which was not loaded with loader"
LogNotLoaded == "Supplied trajectory was not loaded with loader"

(* ------------------------------ open_file ------------------------------ *)
\* Mutant: the byte budget is ignored, the cache gets a slot per frame
CacheCapacity_frames(atoms, frames) == frames

\* Number of slots open_file gives the frame cache of a molecule with `atoms` atoms
\* and a trajectory of `frames` frames
CacheCapacity(atoms, frames) ==
  LET frame_cache_size == CLAMP(ConfiguredCacheBytes, MinCacheBytes, PhysicalRamQuarter)
      approx_frame_size == atoms * BytesPerAtom
      max_num_cache_frames == frame_cache_size \div approx_frame_size
  IN Min(frames, max_num_cache_frames)

\* Done threads no longer count as undisturbed once the registry or a cache changed
Disturb(S) == [t \in Threads |->
                 IF t \in S THEN [threads[t] EXCEPT !.disturbed = TRUE] ELSE threads[t]]

\* The loader open_file ends up with
ResolveLoader(f, la) ==
  IF la # "NULL" THEN la
  ELSE IF f.ext # <<>> THEN traj_loader_from_table(f.ext) ELSE "NULL"

\* loader->create(filename, alloc) returns an instance
CreateOk(f, loader) == loader # "NULL" /\ f.exists /\ f.format = loader

\* loader->create: a live backend instance on file f
loader_create(f) == [file |-> f, live |-> TRUE]

\* Mutant: the instance is not destroyed
loader_destroy_leak(b) == b

\* loader->destroy: the instance is gone
loader_destroy(b) == [file |-> NoFile, live |-> FALSE]

\* md_frame_cache_free: the cache's storage is gone
md_frame_cache_free(c) == [live |-> FALSE, slots |-> <<>>]

\* The topology check of open_file fails
TopologyMismatch(f, m) == f.atoms # MolAtomCount(m)

\* alloc_loaded_trajectory and the initialisation of the entry (lines 497-515)
alloc_loaded_trajectory(k, f, loader, m) ==
  /\ loaded_trajectories' =
       [loaded_trajectories EXCEPT ![num_loaded_trajectories] =
          [key |-> k, mol |-> m, loader |-> loader, traj |-> k, cache |-> k,
           recenter_target |-> {}, deperiodize |-> FALSE]]
  /\ num_loaded_trajectories' = num_loaded_trajectories + 1
  /\ caches' = [caches EXCEPT ![k] =
       md_frame_cache_init(CacheCapacity(MolAtomCount(m), f.frames), MolAtomCount(m))]
  /\ trajs' = [trajs EXCEPT ![k] = [alloc |-> TRUE, inst |-> num_loaded_trajectories]]

\* open_file(filename, loader, mol, alloc)
open_file(f, la, m) ==
  /\ status = "running"
  /\ AllIdle
  /\ LET loader == ResolveLoader(f, la)
         k == next_id
         call == [op |-> "open_file", before |-> Registry]
     IN IF ~CreateOk(f, loader)
        THEN \* unsupported extension, or create returned null
             /\ ret' = call @@ [returned |-> TRUE, value |-> NULL,
                                log |-> IF loader = "NULL" THEN LogUnsupported ELSE ""]
             /\ UNCHANGED <<slider_vars, state, blobs, debug_build, status, loaded_trajectories,
                            num_loaded_trajectories, trajs, backends, caches, next_id,
                            threads, n_loads, n_reconf>>
        ELSE
          /\ k \in Ids
          /\ IF TopologyMismatch(f, m)
             THEN \* loader->destroy(internal_traj); return NULL
                  \* (the allocator hands the freed instance's address out again)
                  /\ backends' = [backends EXCEPT ![k] = loader_destroy(loader_create(f))]
                  /\ next_id' = IF backends'[k].live THEN k + 1 ELSE k
                  /\ ret' = call @@ [returned |-> TRUE, value |-> NULL,
                                     log |-> LogIncompatible]
                  /\ UNCHANGED <<slider_vars, state, blobs, debug_build, status, loaded_trajectories,
                                 num_loaded_trajectories, trajs, caches, threads,
                                 n_loads, n_reconf>>
             ELSE IF num_loaded_trajectories >= ARRAY_SIZE
             THEN \* ASSERT(num_loaded_trajectories < ARRAY_SIZE) fails: a debug build
                  \* aborts, a release build writes past the end of the array
                  /\ backends' = [backends EXCEPT ![k] = loader_create(f)]
                  /\ next_id' = k + 1
                  /\ trajs' = [trajs EXCEPT ![k] = [alloc |-> TRUE, inst |-> -1]]
                  /\ status' = IF debug_build THEN "abort:open_file" ELSE "ub:open_file"
                  /\ ret' = call @@ [returned |-> FALSE, value |-> NULL, log |-> ""]
                  /\ UNCHANGED <<slider_vars, state, blobs, debug_build, loaded_trajectories,
                                 num_loaded_trajectories, caches, threads, n_loads,
                                 n_reconf>>
             ELSE IF MolAtomCount(m) = 0
             THEN \* the entry is allocated, then frame_cache_size / approx_frame_size
                  \* divides by zero
                  /\ backends' = [backends EXCEPT ![k] = loader_create(f)]
                  /\ next_id' = k + 1
                  /\ loaded_trajectories' =
                       [loaded_trajectories EXCEPT ![num_loaded_trajectories] =
                          [ZeroEntry EXCEPT !.key = k, !.mol = m, !.loader = loader,
                                            !.traj = k]]
                  /\ num_loaded_trajectories' = num_loaded_trajectories + 1
                  /\ trajs' = [trajs EXCEPT ![k] = [alloc |-> TRUE, inst |-> -1]]
                  /\ status' = "ub:open_file_div"
                  /\ ret' = call @@ [returned |-> FALSE, value |-> NULL, log |-> ""]
                  /\ UNCHANGED <<slider_vars, state, blobs, debug_build, caches, threads, n_loads,
                                 n_reconf>>
             ELSE /\ backends' = [backends EXCEPT ![k] = loader_create(f)]
                  /\ next_id' = k + 1
                  /\ alloc_loaded_trajectory(k, f, loader, m)
                  /\ ret' = call @@ [returned |-> TRUE, value |-> k, log |-> ""]
                  /\ UNCHANGED <<slider_vars, state, blobs, debug_build, status, threads, n_loads, n_reconf>>

(* -------------------------------- close -------------------------------- *)
\* Mutant: the last entry is dropped instead of being swapped into the freed slot
remove_loaded_trajectory_pop(i) ==
  LET e == loaded_trajectories[i]
      last == num_loaded_trajectories - 1
  IN /\ caches' = [caches EXCEPT ![e.cache] = md_frame_cache_free(@)]
     /\ backends' = [backends EXCEPT ![e.traj] = loader_destroy(@)]
     /\ loaded_trajectories' = [loaded_trajectories EXCEPT ![0] = loaded_trajectories[last]]
     /\ num_loaded_trajectories' = last

\* remove_loaded_trajectory: free the cache, destroy the backend, swap back and pop
remove_loaded_trajectory(i) ==
  LET e == loaded_trajectories[i]
      last == num_loaded_trajectories - 1
  IN /\ caches' = [caches EXCEPT ![e.cache] = md_frame_cache_free(@)]
     /\ backends' = [backends EXCEPT ![e.traj] = loader_destroy(@)]
     /\ loaded_trajectories' =
          [loaded_trajectories EXCEPT ![i] = loaded_trajectories[last]]
     /\ num_loaded_trajectories' = last

\* close(traj)
close(h) ==
  /\ status = "running"
  /\ AllIdle
  /\ LET i == find_loaded_trajectory(h)
     IN IF i # -1
        THEN /\ remove_loaded_trajectory(i)
             /\ trajs' = [trajs EXCEPT ![h].inst = -1]
             /\ threads' = Disturb(Threads)
             /\ ret' = [op |-> "close", returned |-> TRUE, value |-> TRUE, log |-> "",
                        after_open |-> (ret.op = "open_file" /\ ret.value = h)]
             /\ UNCHANGED <<slider_vars, state, blobs, debug_build, status, next_id, n_loads, n_reconf>>
        ELSE \* MD_LOG_ERROR; ASSERT(false); return false
             /\ status' = IF debug_build THEN "abort:close" ELSE status
             /\ ret' = [op |-> "close", returned |-> ~debug_build, value |-> FALSE,
                        log |-> LogNotOwned, after_open |-> FALSE]
             /\ UNCHANGED <<slider_vars, state, blobs, debug_build, loaded_trajectories,
                            num_loaded_trajectories, trajs, backends, caches, next_id,
                            threads, n_loads, n_reconf>>


(* --------------------------- reconfiguration --------------------------- *)
\* set_recenter_target(traj, atom_mask)
set_recenter_target(h, mask) ==
  /\ status = "running"
  /\ AllIdle
  /\ LET i == find_loaded_trajectory(h)
     IN /\ IF i # -1
           THEN loaded_trajectories' =
                  [loaded_trajectories EXCEPT ![i].recenter_target =
                     IF mask # "null" THEN MaskBits(mask) ELSE {}]
           ELSE UNCHANGED loaded_trajectories
        /\ ret' = [op |-> "set_recenter_target", returned |-> TRUE,
                   value |-> (i # -1), log |-> IF i # -1 THEN "" ELSE LogNotLoaded,
                   h |-> h, mask |-> mask,
                   prior |-> (i # -1 /\ loaded_trajectories[i].recenter_target # {})]
  /\ n_reconf' = n_reconf + 1
  /\ UNCHANGED <<slider_vars, state, blobs, debug_build, status, num_loaded_trajectories, trajs, backends,
                 caches, next_id, threads, n_loads>>

\* set_deperiodize(traj, deperiodize)
set_deperiodize(h, deperiodize) ==
  /\ status = "running"
  /\ AllIdle
  /\ LET i == find_loaded_trajectory(h)
     IN /\ IF i # -1
           THEN loaded_trajectories' =
                  [loaded_trajectories EXCEPT ![i].deperiodize = deperiodize]
           ELSE UNCHANGED loaded_trajectories
        /\ ret' = [op |-> "set_deperiodize", returned |-> TRUE,
                   value |-> (i # -1), log |-> IF i # -1 THEN "" ELSE LogNotLoaded]
  /\ n_reconf' = n_reconf + 1
  /\ UNCHANGED <<slider_vars, state, blobs, debug_build, status, num_loaded_trajectories, trajs, backends,
                 caches, next_id, threads, n_loads>>

\* clear_cache(traj)
clear_cache(h) ==
  /\ status = "running"
  /\ AllIdle
  /\ LET i == find_loaded_trajectory(h)
     IN /\ IF i # -1
           THEN LET c == loaded_trajectories[i].cache
                IN /\ caches' = [caches EXCEPT ![c] = md_frame_cache_clear(caches[c])]
                   /\ threads' = Disturb({t \in Threads : threads[t].cache = c})
           ELSE UNCHANGED <<caches, threads>>
        /\ ret' = [op |-> "clear_cache", returned |-> TRUE,
                   value |-> (i # -1), log |-> IF i # -1 THEN "" ELSE LogNotLoaded,
                   h |-> h, loads |-> n_loads]
  /\ n_reconf' = n_reconf + 1
  /\ UNCHANGED <<slider_vars, state, blobs, debug_build, status, loaded_trajectories, num_loaded_trajectories,
                 trajs, backends, next_id, n_loads>>

\* num_cache_frames(traj)
num_cache_frames(h) ==
  /\ status = "running"
  /\ AllIdle
  /\ LET i == find_loaded_trajectory(h)
     IN ret' = [op |-> "num_cache_frames", returned |-> TRUE,
                value |-> IF i # -1
                          THEN md_frame_cache_num_frames(
                                 caches[loaded_trajectories[i].cache])
                          ELSE 0,
                log |-> IF i # -1 THEN "" ELSE LogNotLoaded]
  /\ n_reconf' = n_reconf + 1
  /\ UNCHANGED <<slider_vars, state, blobs, debug_build, status, loaded_trajectories, num_loaded_trajectories,
                 trajs, backends, caches, next_id, threads, n_loads>>

(* ---------------------- load_frame / decode_frame_data ------------------ *)
\* The entry a call made through handle h works on: handle->inst
InstEntry(t) == loaded_trajectories[threads[t].inst]

InFlight(t) == threads[t].pc \notin {"idle", "done"}

\* The thread that makes the next call: threads are interchangeable, so the call is
\* given to the lowest thread that made none yet, else to the lowest that returned
NextCaller ==
  LET fresh == {t \in Threads : threads[t].pc = "idle"}
      back == {t \in Threads : threads[t].pc = "done"}
      pick(S) == {t \in S : \A u \in S : t <= u}
  IN IF fresh # {} THEN pick(fresh) ELSE pick(back)

\* The object representation of an int64_t: 8 bytes, least significant first,
\* two's complement (for values below 2^24 in magnitude)
Byte(n, i) == IF i = 1 THEN n % 256
              ELSE IF i = 2 THEN (n \div 256) % 256
              ELSE IF i = 3 THEN (n \div 65536) % 256
              ELSE 0
Int64Bytes(v) == IF v >= 0 THEN [i \in 1..8 |-> Byte(v, i)]
                 ELSE [i \in 1..8 |-> 255 - Byte(-v - 1, i)]

\* int64_t idx = *((int64_t*)data_ptr)
ReadInt64(b) ==
  IF b[8] < 128 THEN b[1] + 256 * b[2] + 65536 * b[3]
  ELSE -((255 - b[1]) + 256 * (255 - b[2]) + 65536 * (255 - b[3])) - 1

\* fetch_frame_data that zeroes the caller's buffer
fetch_frame_data_out_zero(idx, provided) ==
  IF provided THEN [i \in 1..8 |-> 0] ELSE <<>>

\* What fetch_frame_data leaves in the caller's buffer (<<>>: nothing was written)
fetch_frame_data_out(idx, provided) ==
  IF provided THEN Int64Bytes(idx) ELSE <<>>

\* fetch_frame_data(inst, idx, data_ptr); provided: data_ptr is not null
fetch_frame_data(idx, provided) ==
  /\ status = "running"
  /\ AllIdle
  /\ ret' = [op |-> "fetch_frame_data", returned |-> TRUE, value |-> 8, log |-> "",
             idx |-> idx, provided |-> provided,
             out |-> fetch_frame_data_out(idx, provided)]
  /\ UNCHANGED <<slider_vars, state, blobs, debug_build, status, loaded_trajectories,
                 num_loaded_trajectories, trajs, backends, caches, next_id, threads,
                 n_loads, n_reconf>>

\* decode_frame_data(inst, data_ptr, data_size, ...) up to its two ASSERTs on idx
decode_frame_data(t, h, data) ==
  /\ status = "running"
  /\ ~InFlight(t)
  /\ h \in Ids /\ trajs[h].alloc /\ trajs[h].inst # -1
  /\ n_loads' = n_loads + 1
  /\ LET inst == trajs[h].inst
         idx == ReadInt64(data)
         e == loaded_trajectories[inst]
         mine == [IdleThread EXCEPT !.pc = "find", !.h = h, !.inst = inst, !.idx = idx,
                    !.cache = e.cache,
                    !.conc = {u \in Threads \ {t} : InFlight(u) /\ threads[u].h = h
                                                   /\ threads[u].idx = idx}]
         others == [u \in Threads |->
                      [threads[u] EXCEPT !.conc = @ \ {t}]]
     IN IF ~backends[e.traj].live \/ ~caches[e.cache].live
        THEN \* the slot inst points to holds an entry whose backend and cache were freed
             /\ status' = "ub:load_frame"
             /\ threads' = [others EXCEPT ![t] = mine]
        ELSE IF idx \notin 0..(backends[e.traj].file.frames - 1) /\ debug_build
        THEN \* ASSERT(0 <= idx && idx < num_frames) aborts
             /\ status' = "abort:load_frame"
             /\ threads' = [others EXCEPT ![t] = mine]
        ELSE /\ threads' = [others EXCEPT ![t] = mine]
             /\ UNCHANGED status
  /\ UNCHANGED <<slider_vars, state, blobs, debug_build, loaded_trajectories,
                 num_loaded_trajectories, trajs, backends, caches, next_id, n_reconf, ret>>

\* load_frame(inst, idx, ...): decode_frame_data on &idx
load_frame(t, h, idx) == decode_frame_data(t, h, Int64Bytes(idx))

\* md_frame_cache_find_or_reserve(&loaded_traj->cache, idx, &frame_data, &lock)
find_or_reserve(t) ==
  /\ status = "running"
  /\ threads[t].pc = "find"
  /\ LET cid == InstEntry(t).cache
         c == caches[cid]
         idx == threads[t].idx
         found == Carrying(c, idx)
     IN IF found # {}
        THEN \* blocks on the slot's lock while its writer holds it
             \E s \in found :
               /\ c.slots[s].writer = NoThread
               /\ caches' = [caches EXCEPT ![cid].slots[s].readers = @ \cup {t}]
               /\ threads' = [threads EXCEPT ![t].pc = "copy", ![t].slot = s,
                                             ![t].in_cache = TRUE]
        ELSE \E s \in Victims(c) :
               LET old == c.slots[s]
                   hurt == {u \in Threads \ {t} :
                              /\ threads[u].cache = cid
                              /\ threads[u].idx = old.frame_index
                              /\ old.populated}
                   marked == Disturb(hurt)
               IN /\ caches' = [caches EXCEPT ![cid].slots[s] =
                       [old EXCEPT !.reserved = TRUE, !.populated = FALSE,
                                   !.frame_index = idx, !.writer = t]]
                  /\ threads' = [marked EXCEPT ![t].pc = "decode", ![t].slot = s,
                                               ![t].in_cache = FALSE]
  /\ UNCHANGED <<slider_vars, state, blobs, debug_build, status, loaded_trajectories, num_loaded_trajectories,
                 trajs, backends, next_id, n_loads, n_reconf, ret>>

\* The recenter mask decode_frame_data reads through inst.  The md_bitfield_t of an
\* entry is copied by value when remove_loaded_trajectory moves the entry, and both
\* copies share the bit storage: a read through the copy left in the vacated slot,
\* after the mask of the moved entry was set again, is a read of storage that may
\* have been reallocated, and yields the old mask or the new one
RecenterTargets(t) ==
  LET e == InstEntry(t)
      i == find_loaded_trajectory(e.key)
  IN IF /\ threads[t].inst >= num_loaded_trajectories
        /\ i # -1
        /\ e.recenter_target # {}
     THEN {e.recenter_target, loaded_trajectories[i].recenter_target}
     ELSE {e.recenter_target}

\* The miss branch: backend fetch and decode into the slot, then the transform
backend_decode(t) ==
  /\ status = "running"
  /\ threads[t].pc = "decode"
  /\ LET e == InstEntry(t)
         f == backends[e.traj].file
         idx == threads[t].idx
         s == threads[t].slot
         result == BackendDecodeOk(f, idx)
     IN \E mask \in RecenterTargets(t) :
          IF result /\ \E a \in mask : a >= f.atoms
          THEN \* x[i] is read for an index past the frame's num_atoms coordinates
               /\ status' = "ub:recenter"
               /\ UNCHANGED <<caches, threads>>
          ELSE /\ caches' = IF result
                            THEN [caches EXCEPT ![e.cache].slots[s].data =
                                    Transform(BackendFrame(f, idx), mask, e.deperiodize)]
                            ELSE caches
               /\ threads' = [threads EXCEPT ![t].pc = "copy", ![t].result = result,
                                             ![t].decoded = TRUE]
               /\ UNCHANGED status
  /\ UNCHANGED <<slider_vars, state, blobs, debug_build, loaded_trajectories, num_loaded_trajectories,
                 trajs, backends, next_id, n_loads, n_reconf, ret>>

\* if (result) copy to the caller's buffers; release the lock; return result
copy_and_release(t) ==
  /\ status = "running"
  /\ threads[t].pc = "copy"
  /\ LET cid == InstEntry(t).cache
         s == threads[t].slot
     IN /\ threads' = [threads EXCEPT ![t].pc = "done", ![t].slot = NoSlot,
                         ![t].out = IF threads[t].result
                                    THEN CopyOut(caches[cid].slots[s].data)
                                    ELSE NoData]
        /\ caches' = [caches EXCEPT ![cid] =
                        md_frame_cache_frame_lock_release(caches[cid], s, t)]
  /\ UNCHANGED <<slider_vars, state, blobs, debug_build, status, loaded_trajectories, num_loaded_trajectories,
                 trajs, backends, next_id, n_loads, n_reconf, ret>>

(* ----------------------------- loader state ---------------------------- *)
\* LoaderStateFlag_RequiresDialogue = 1 << 0
LoaderStateFlag_RequiresDialogue == 1
\* sizeof(md_lammps_molecule_loader_arg_t), in units of that struct
SizeofArg == 1
\* md_lammps_atom_format_from_file: what the sniff of the file's content finds
LammpsFormats == {"MD_LAMMPS_ATOM_FORMAT_UNKNOWN", "full"}

\* flags | bit, for the one flag bit there is
SetFlag(flags, bit) == IF (flags \div bit) % 2 = 1 THEN flags ELSE flags + bit

\* mol_loader_preload_check that asks for the dialogue whatever it sniffed
mol_loader_preload_check_dialogue(s, loader, format, ptr) ==
  [s EXCEPT !.flags = SetFlag(s.flags, LoaderStateFlag_RequiresDialogue)]

\* mol_loader_preload_check: the state it leaves (ptr: what md_alloc returns)
mol_loader_preload_check(s, loader, format, ptr) ==
  IF loader = MOL_LOADER_LAMMPS
  THEN IF format # "MD_LAMMPS_ATOM_FORMAT_UNKNOWN"
       THEN [s EXCEPT !.data_size = SizeofArg, !.data_ptr = ptr, !.mol_loader_arg = ptr]
       ELSE [s EXCEPT !.flags = SetFlag(s.flags, LoaderStateFlag_RequiresDialogue)]
  ELSE s

\* traj_loader_preload_check
traj_loader_preload_check(s, loader) == s

\* md_alloc: an address not in use
FreeBlob == CHOOSE b \in BlobIds : ~blobs[b].alloc

\* load::init_loader_state(state, file_path, alloc), for a path whose extension
\* is ext (<<>>: extract_ext finds none) and whose content sniffs as format
init_loader_state(ext, format) ==
  LET found == ext # <<>>
      mol_loader == IF found THEN mol_loader_from_ext(ext) ELSE MOL_LOADER_UNKNOWN
      traj_loader == IF found THEN traj_loader_from_ext(ext) ELSE TRAJ_LOADER_UNKNOWN
      s1 == IF mol_loader # MOL_LOADER_UNKNOWN
            THEN mol_loader_preload_check(
                   [ZeroState EXCEPT !.mol_loader = mol_loader_api[mol_loader]],
                   mol_loader, format, FreeBlob)
            ELSE ZeroState
      s2 == IF traj_loader # TRAJ_LOADER_UNKNOWN
            THEN traj_loader_preload_check(
                   [s1 EXCEPT !.traj_loader = traj_loader_api[traj_loader]], traj_loader)
            ELSE s1
  IN /\ status = "running" /\ AllIdle
     /\ \E b \in BlobIds : ~blobs[b].alloc
     /\ state' = s2
     /\ blobs' = IF s2.data_ptr # NULL
                 THEN [blobs EXCEPT ![s2.data_ptr] = [alloc |-> TRUE, arg |-> format]]
                 ELSE blobs
     /\ ret' = [op |-> "init_loader_state", returned |-> TRUE, log |-> "",
                value |-> (mol_loader # MOL_LOADER_UNKNOWN
                           \/ traj_loader # TRAJ_LOADER_UNKNOWN),
                ext |-> ext, format |-> format, before |-> blobs]
     /\ UNCHANGED <<slider_vars, debug_build, status, loaded_trajectories,
                 num_loaded_trajectories,
                    trajs, backends, caches, next_id, threads, n_loads, n_reconf>>

\* load::free_loader_state(state, alloc)
free_loader_state ==
  /\ status = "running" /\ AllIdle
  /\ IF state.data_size # 0
     THEN /\ blobs' = [blobs EXCEPT ![state.data_ptr] = [alloc |-> FALSE, arg |-> ""]]
          /\ state' = [state EXCEPT !.data_size = 0, !.data_ptr = NULL]
     ELSE UNCHANGED <<state, blobs>>
  /\ ret' = [op |-> "free_loader_state", returned |-> TRUE, value |-> NULL, log |-> ""]
  /\ UNCHANGED <<slider_vars, debug_build, status, loaded_trajectories,
                 num_loaded_trajectories,
                 trajs, backends, caches, next_id, threads, n_loads, n_reconf>>

\* A call of load::mol::loader_from_ext(ext)
mol_loader_from_ext_call(ext) ==
  /\ status = "running" /\ AllIdle
  /\ ret' = [op |-> "mol::loader_from_ext", returned |-> TRUE,
             value |-> mol_loader_from_table(ext), log |-> "", ext |-> ext]
  /\ UNCHANGED <<slider_vars, state, blobs, debug_build, status, loaded_trajectories,
                 num_loaded_trajectories, trajs, backends, caches, next_id, threads,
                 n_loads, n_reconf>>

\* A call of load::traj::loader_from_ext(ext)
traj_loader_from_ext_call(ext) ==
  /\ status = "running" /\ AllIdle
  /\ ret' = [op |-> "traj::loader_from_ext", returned |-> TRUE,
             value |-> traj_loader_from_table(ext), log |-> "", ext |-> ext]
  /\ UNCHANGED <<slider_vars, state, blobs, debug_build, status, loaded_trajectories,
                 num_loaded_trajectories, trajs, backends, caches, next_id, threads,
                 n_loads, n_reconf>>

(* ------------------------- range slider, per frame --------------------- *)
\* The variables of namespace load, but for the record of the last call
loader_vars == <<debug_build, status, loaded_trajectories, num_loaded_trajectories,
                 trajs, backends, caches, next_id, threads, n_loads, n_reconf, state,
                 blobs>>

\* A frame in which RangeSliderFloat reaches RangeSliderBehavior, with the mouse at x
\* and the left button down or up: a click (down now, up the frame before) on the
\* hovered item makes it the active one first; CTRL is up and no tab focus is
\* requested
RangeSliderFloat(x, down) ==
  LET MouseClicked == down /\ ~GImGui.MouseDown
      hovered == SliderArgs.frame_min_x <= x /\ x < SliderArgs.frame_max_x
      ActiveId == IF hovered /\ MouseClicked THEN SliderArgs.id ELSE GImGui.ActiveId
      r == RangeSliderBehavior(range_slider_states, v1, v2, ActiveId, MouseClicked,
                               down, x)
  IN /\ range_slider_states' = r.states
     /\ v1' = r.v1
     /\ v2' = r.v2
     /\ GImGui' = [ActiveId |-> r.ActiveId, MouseDown |-> down]
     /\ ret' = [op |-> "RangeSliderFloat", returned |-> TRUE, log |-> "",
                value |-> r.value_changed, branch |-> r.branch]
     /\ UNCHANGED loader_vars

\* A frame in which RangeSliderFloat returns before RangeSliderBehavior (the window
\* skips its items, or ItemAdd clips the item) or is not called.  The map and the
\* values are as they were; ImGui keeps the active id or clears it, depending on
\* whether the id was kept alive this frame.
SkippedFrame(down) ==
  /\ \E ActiveId \in {GImGui.ActiveId, NULL} :
       GImGui' = [ActiveId |-> ActiveId, MouseDown |-> down]
  /\ ret' = [op |-> "skipped", returned |-> TRUE, log |-> "", value |-> FALSE]
  /\ UNCHANGED <<range_slider_states, v1, v2, loader_vars>>

(* ---------------------------- specifications --------------------------- *)
\* The calls of the API on the files `files`, molecules `mols` and frame indices
\* `idxs`, bounded by `opens` creations, `loads` load_frame calls and `reconf`
\* reconfiguration calls, and by `calls` of the last two together
Calls(files, mols, idxs, opens, loads, reconf, calls) ==
  \/ \E f \in files, la \in LoaderArgs, m \in mols :
       next_id <= opens /\ open_file(f, la, m)
  \/ \E h \in HandleArgs : close(h)
  \/ \E h \in HandleArgs, mask \in MaskArgs :
       /\ n_reconf < reconf /\ n_loads + n_reconf < calls
       /\ set_recenter_target(h, mask)
  \/ \E h \in HandleArgs, d \in BOOLEAN :
       /\ n_reconf < reconf /\ n_loads + n_reconf < calls
       /\ set_deperiodize(h, d)
  \/ \E h \in HandleArgs :
       /\ n_reconf < reconf /\ n_loads + n_reconf < calls
       /\ clear_cache(h)
  \/ \E h \in HandleArgs :
       /\ n_reconf < reconf /\ n_loads + n_reconf < calls
       /\ num_cache_frames(h)
  \/ \E t \in NextCaller, h \in HandleArgs, idx \in idxs :
       /\ n_loads < loads /\ n_loads + n_reconf < calls
       /\ load_frame(t, h, idx)
  \/ \E t \in Threads : find_or_reserve(t)
  \/ \E t \in Threads : backend_decode(t)
  \/ \E t \in Threads : copy_and_release(t)

\* Everything: trajectories opened and closed while frames are loaded and settings change
Next == Calls(Files, Mols, IdxArgs, MaxOpens, MaxCalls, MaxCalls, MaxCalls)

Spec == Init /\ [][Next]_vars

\* Reconfiguration: trajectories of one file, frame 0 loaded, settings changed
GoodFiles == {f \in Files : f.name = "a.xtc"}

NextReconf == Calls(GoodFiles, {1}, {0}, MaxReconfOpens, MaxReconfLoads, MaxReconf,
                    MaxReconfCalls)

SpecReconf == Init /\ [][NextReconf]_vars

\* Handles over time: trajectories of one file opened and closed between the calls
NextHandles == Calls(GoodFiles, {1}, {0}, MaxHandleOpens, MaxHandleLoads,
                     MaxHandleReconf, MaxHandleCalls)

SpecHandles == Init /\ [][NextHandles]_vars

\* Settings over time: one trajectory, with or without a unit cell, whose mask and
\* flag change between loads of frame 0
OpenableFiles == {f \in Files : f.exists /\ f.format # "NULL"}

NextSettings == Calls(OpenableFiles, Mols, {0}, MaxSettingsOpens, MaxSettingsLoads,
                      MaxSettingsReconf, MaxSettingsCalls)

SpecSettings == Init /\ [][NextSettings]_vars

\* The cache under pressure: a trajectory whose cache holds fewer frames than it has
BigFiles == {f \in Files : f.name = "big.xtc"}

NextCache == Calls(BigFiles, {2}, {0, 1}, MaxCacheOpens, MaxCacheLoads, MaxCacheReconf,
                   MaxCacheCalls)

SpecCache == Init /\ [][NextCache]_vars

\* The registry alone: opens until the table overflows, few closes
NextRegistry ==
  \/ \E f \in Files \ {g \in Files : g.name = "big.xtc"}, la \in LoaderArgs, m \in Mols :
       open_file(f, la, m)
  \/ \E h \in HandleArgs : NumClosed < MaxCapCloses /\ close(h)

SpecRegistry == Init /\ [][NextRegistry]_vars

\* The format registry and the loader state: extensions in every spelling
to_upper(c) == IF \E i \in DOMAIN Lower : Lower[i] = c
               THEN Upper[CHOOSE i \in DOMAIN Lower : Lower[i] = c] ELSE c

\* A token in upper case
UpperCase(tok) == [i \in DOMAIN tok |-> to_upper(tok[i])]

\* Extensions callers come with: the registered ones in lower and in upper case,
\* one in mixed case, one that is not registered, and none
ExtArgs == {table_ext[i] : i \in 1..NUM_ENTRIES}
             \cup {UpperCase(table_ext[i]) : i \in 1..NUM_ENTRIES}
             \cup {<<"D", "a", "t", "a">>, <<"t", "x", "t">>, <<>>}

\* The trajectory a.xtc under its lower-case and its upper-case name
CaseFiles ==
  {f \in Files : f.name = "a.xtc"}
    \cup {[name |-> "A.XTC", ext |-> <<"X", "T", "C">>, format |-> "md_xtc_trajectory_loader",
           exists |-> TRUE, atoms |-> 2, frames |-> 2, bad |-> {1}, box |-> 8]}

NextLoader ==
  \/ \E ext \in ExtArgs, format \in LammpsFormats : init_loader_state(ext, format)
  \/ free_loader_state
  \/ \E ext \in ExtArgs : mol_loader_from_ext_call(ext)
  \/ \E ext \in ExtArgs : traj_loader_from_ext_call(ext)
  \/ \E f \in CaseFiles : next_id <= MaxLoaderOpens /\ open_file(f, "NULL", 1)

SpecLoader == Init /\ [][NextLoader]_vars

\* The index blob: fetch_frame_data, and decode_frame_data called on what it wrote
\* or through load_frame
FetchIdxArgs == {-1, 0, 300}

NextFetch ==
  \/ \E f \in GoodFiles : next_id <= MaxFetchOpens /\ open_file(f, "NULL", 1)
  \/ \E h \in HandleArgs : close(h)
  \/ \E idx \in FetchIdxArgs, provided \in BOOLEAN : fetch_frame_data(idx, provided)
  \/ \E t \in NextCaller, h \in HandleArgs :
       /\ n_loads < MaxFetchLoads
       /\ ret.op = "fetch_frame_data" /\ ret.provided
       /\ decode_frame_data(t, h, ret.out)
  \/ \E t \in NextCaller, h \in HandleArgs, idx \in FetchIdxArgs :
       n_loads < MaxFetchLoads /\ load_frame(t, h, idx)
  \/ \E t \in Threads : find_or_reserve(t)
  \/ \E t \in Threads : backend_decode(t)
  \/ \E t \in Threads : copy_and_release(t)

SpecFetch == Init /\ [][NextFetch]_vars

\* Masks of any content: those of MaskArgs and one with a bit no molecule here has
AnyMaskArgs == MaskArgs \cup {"m5"}

NextMasks ==
  \/ \E f \in GoodFiles : next_id <= MaxMaskOpens /\ open_file(f, "NULL", 1)
  \/ \E h \in HandleArgs, mask \in AnyMaskArgs :
       n_reconf < MaxMaskReconf /\ set_recenter_target(h, mask)
  \/ \E t \in NextCaller, h \in HandleArgs :
       n_loads < MaxMaskLoads /\ load_frame(t, h, 0)
  \/ \E t \in Threads : find_or_reserve(t)
  \/ \E t \in Threads : backend_decode(t)
  \/ \E t \in Threads : copy_and_release(t)

SpecMasks == Init /\ [][NextMasks]_vars

\* Molecules without atoms: a trajectory file whose backend reports 0 atoms, and
\* the molecule 3, which has none (MolAtomCount)
EmptyFiles ==
  GoodFiles \cup {[name |-> "empty.xtc", ext |-> <<"x", "t", "c">>,
                   format |-> "md_xtc_trajectory_loader", exists |-> TRUE,
                   atoms |-> 0, frames |-> 1, bad |-> {}, box |-> 0]}

NextEmpty ==
  \/ \E f \in EmptyFiles, la \in LoaderArgs, m \in {1, 3} :
       next_id <= MaxEmptyOpens /\ open_file(f, la, m)
  \/ \E h \in HandleArgs : close(h)

SpecEmpty == Init /\ [][NextEmpty]_vars

\* Large molecules: one whose frame just fits the cache's byte budget (big.xtc,
\* molecule 2) and one whose frame is one atom larger (huge.xtc, molecule 4)
HugeFiles ==
  BigFiles \cup {[name |-> "huge.xtc", ext |-> <<"x", "t", "c">>,
                  format |-> "md_xtc_trajectory_loader", exists |-> TRUE,
                  atoms |-> 349526, frames |-> 2, bad |-> {}, box |-> 0]}

NextHuge == Calls(HugeFiles, {2, 4}, {0, 1}, MaxHugeOpens, MaxHugeLoads, MaxHugeReconf,
                  MaxHugeCalls)

SpecHuge == Init /\ [][NextHuge]_vars

\* The range slider: frames with and without the widget, from every ordered pair of
\* values in the range (ASSERT plays no part in it: one build)
InitSlider ==
  /\ LoaderInit
  /\ debug_build
  /\ \E a, b \in SliderArgs.v_min..SliderArgs.v_max : a <= b /\ SliderStart(a, b)

NextSlider ==
  \/ \E x \in MousePos, down \in BOOLEAN : RangeSliderFloat(x, down)
  \/ \E down \in BOOLEAN : SkippedFrame(down)

SpecSlider == InitSlider /\ [][NextSlider]_vars

\* The range slider when the widget is submitted every frame
NextEveryFrame == \E x \in MousePos, down \in BOOLEAN : RangeSliderFloat(x, down)

SpecEveryFrame == InitSlider /\ [][NextEveryFrame]_vars

\* Reopening: a.xtc is opened, loaded, closed and opened again while trajectories
\* of another file are opened, reconfigured and closed
FreshFiles ==
  GoodFiles \cup {[name |-> "b.xtc", ext |-> <<"x", "t", "c">>,
                   format |-> "md_xtc_trajectory_loader", exists |-> TRUE,
                   atoms |-> 2, frames |-> 2, bad |-> {}, box |-> 0]}

\* h is an open trajectory of a file other than a.xtc
OtherTrajectory(h) ==
  /\ find_loaded_trajectory(h) # -1
  /\ backends[loaded_trajectories[find_loaded_trajectory(h)].traj].file.name # "a.xtc"

NextFresh ==
  \/ \E f \in FreshFiles : next_id <= MaxFreshOpens /\ open_file(f, "NULL", 1)
  \/ \E h \in HandleArgs : close(h)
  \/ \E h \in HandleArgs, mask \in MaskArgs :
       n_reconf < MaxFreshReconf /\ OtherTrajectory(h) /\ set_recenter_target(h, mask)
  \/ \E h \in HandleArgs, d \in BOOLEAN :
       n_reconf < MaxFreshReconf /\ OtherTrajectory(h) /\ set_deperiodize(h, d)
  \/ \E t \in NextCaller, h \in HandleArgs :
       n_loads < MaxFreshLoads /\ load_frame(t, h, 0)
  \/ \E t \in Threads : find_or_reserve(t)
  \/ \E t \in Threads : backend_decode(t)
  \/ \E t \in Threads : copy_and_release(t)

SpecFresh == Init /\ [][NextFresh]_vars

\* Load calls under fair scheduling: a thread inside decode_frame_data that can
\* take its next step eventually takes it (the backend's fetch and decode return,
\* and a thread waiting for a slot lock gets it once it is free)
NextLive ==
  \/ \E f \in GoodFiles : next_id <= MaxLiveOpens /\ open_file(f, "NULL", 1)
  \/ \E h \in HandleArgs : close(h)
  \/ \E t \in NextCaller, h \in HandleArgs, idx \in {0, 1} :
       n_loads < MaxLiveLoads /\ load_frame(t, h, idx)
  \/ \E t \in Threads : find_or_reserve(t)
  \/ \E t \in Threads : backend_decode(t)
  \/ \E t \in Threads : copy_and_release(t)

SpecLive ==
  /\ Init /\ [][NextLive]_vars
  /\ \A t \in Threads : /\ WF_vars(find_or_reserve(t))
                        /\ WF_vars(backend_decode(t))
                        /\ WF_vars(copy_and_release(t))


(* ================================ claims =============================== *)
\* Handle h is a key of the registry
Registered(h) ==
  \E i \in 0..(num_loaded_trajectories - 1) : loaded_trajectories[i].key = h

\* The backend instances that are alive
LiveBackends == {b \in Ids : backends[b].live}

\* C4: when the created backend reports an atom count different from the
\* molecule's, open_file returns null, the instance it created has been destroyed
\* (no live backend instance is added) and the registry is as before the call.
C4_TopologyMismatch ==
  [][\A f \in Files, la \in LoaderArgs, m \in Mols :
       (/\ open_file(f, la, m)
        /\ CreateOk(f, ResolveLoader(f, la))
        /\ f.atoms # MolAtomCount(m))
       => /\ ret'.returned /\ ret'.value = NULL
          /\ LiveBackends' = LiveBackends
          /\ Registry' = Registry
          /\ status' = status]_vars

\* A mismatching open was refused while other trajectories were registered
C4_Witness ==
  /\ ret.op = "open_file" /\ ret.log = LogIncompatible
  /\ num_loaded_trajectories > 0

\* C5: with 8 trajectories open a ninth open_file returns null and leaves the
\* registry unchanged; with fewer than 8 open a compatible open succeeds.
C5_Capacity ==
  [][\A f \in Files, la \in LoaderArgs, m \in Mols :
       (/\ open_file(f, la, m)
        /\ CreateOk(f, ResolveLoader(f, la))
        /\ f.atoms = MolAtomCount(m))
       => IF num_loaded_trajectories = ARRAY_SIZE
          THEN /\ ret'.returned /\ ret'.value = NULL
               /\ Registry' = Registry
               /\ status' = "running"
          ELSE ret'.returned /\ ret'.value # NULL]_vars

\* C6: a successful open_file immediately followed by close of the returned handle
\* leaves the registry as it was before the open: same count, same keys, same
\* entries, and the caches of the remaining entries untouched.
C6_OpenClose ==
  [][\A h \in HandleArgs :
       (close(h) /\ ret.op = "open_file" /\ ret.value = h)
       => /\ ret'.returned /\ ret'.value = TRUE
          /\ Registry' = ret.before
          /\ \A i \in 0..(num_loaded_trajectories' - 1) :
               caches'[loaded_trajectories'[i].cache]
                 = caches[loaded_trajectories[i].cache]]_vars

\* A handle was closed right after it was opened, with other trajectories registered
C6_Witness ==
  /\ ret.op = "close" /\ ret.after_open /\ ret.value = TRUE
  /\ num_loaded_trajectories > 1

\* C7: close on a handle that is not in the registry returns false as a value, does
\* not abort, and leaves the registry, the handles and the caches unchanged.
C7_CloseUnknown ==
  [][\A h \in HandleArgs :
       (close(h) /\ ~Registered(h))
       => /\ ret'.returned /\ ret'.value = FALSE
          /\ status' = "running"
          /\ loaded_trajectories' = loaded_trajectories
          /\ num_loaded_trajectories' = num_loaded_trajectories
          /\ caches' = caches /\ trajs' = trajs /\ backends' = backends]_vars


\* C8: set_recenter_target, set_deperiodize and clear_cache on a handle that is not
\* in the registry return false, num_cache_frames returns 0, and none of them
\* changes any entry (mask, flag) or any cache.
C8_UnknownHandle ==
  [][\A h \in HandleArgs :
       ~Registered(h) =>
         /\ (\E mask \in MaskArgs : set_recenter_target(h, mask))
              => ret'.returned /\ ret'.value = FALSE
                 /\ loaded_trajectories' = loaded_trajectories /\ caches' = caches
         /\ (\E d \in BOOLEAN : set_deperiodize(h, d))
              => ret'.returned /\ ret'.value = FALSE
                 /\ loaded_trajectories' = loaded_trajectories /\ caches' = caches
         /\ clear_cache(h)
              => ret'.returned /\ ret'.value = FALSE
                 /\ loaded_trajectories' = loaded_trajectories /\ caches' = caches
         /\ num_cache_frames(h)
              => ret'.returned /\ ret'.value = 0
                 /\ loaded_trajectories' = loaded_trajectories /\ caches' = caches]_vars

\* A reconfiguration call was refused for an unknown handle while a registered
\* trajectory had a populated cache
C8_Witness ==
  /\ ret.op \in {"set_recenter_target", "set_deperiodize", "clear_cache"}
  /\ ret.value = FALSE /\ ret.log = LogNotLoaded
  /\ \E i \in 0..(num_loaded_trajectories - 1) :
       md_frame_cache_num_frames(caches[loaded_trajectories[i].cache]) > 0


(* ------------------------- claims on load_frame ------------------------ *)
\* Thread t's call has returned
Returned(t) == threads[t].pc = "done"

\* The calls of t and u were in flight at the same time on the same handle and index
Concurrent(t, u) ==
  /\ t # u /\ threads[t].pc # "idle" /\ threads[u].pc # "idle"
  /\ threads[t].h = threads[u].h /\ threads[t].idx = threads[u].idx
  /\ (u \in threads[t].conc \/ t \in threads[u].conc)

\* Number of the calls in S that invoked the backend's decode_frame_data
Decodes(S) == Cardinality({t \in S : threads[t].decoded})

\* C1: concurrent load_frame calls on one handle and one frame index, with no
\* eviction, clear_cache or close in between, invoke the backend's decode exactly
\* once, and all of them return the same result, header and coordinates.
C1_DecodeOnce ==
  \A t \in Threads, u \in Threads :
    (/\ Concurrent(t, u) /\ Returned(t) /\ Returned(u)
     /\ ~threads[t].disturbed /\ ~threads[u].disturbed)
    => /\ Decodes({t, u}) = 1
       /\ threads[t].result = threads[u].result
       /\ threads[t].out = threads[u].out

\* An earlier call on (h, idx) decoded through the backend, succeeded and returned,
\* and nothing was evicted, cleared or closed since
DecodedBefore(u) ==
  {t \in Threads \ {u} :
     /\ Returned(t) /\ threads[t].h = threads[u].h /\ threads[t].idx = threads[u].idx
     /\ threads[t].decoded /\ threads[t].result /\ ~threads[t].disturbed}

\* C2: after a successful load_frame(h, i) that decoded through the backend, a
\* second load_frame(h, i), with no eviction, clear_cache or close in between, is
\* a cache hit (no backend call) and returns the header and coordinates of the first.
C2_MissThenHit ==
  [][\A u \in Threads :
       /\ (find_or_reserve(u) /\ DecodedBefore(u) # {})
            => threads'[u].in_cache
       /\ (copy_and_release(u) /\ DecodedBefore(u) # {})
            => /\ ~threads[u].decoded
               /\ threads'[u].result
               /\ \A t \in DecodedBefore(u) : threads'[u].out = threads[t].out]_vars

\* An earlier call on the same cache and index whose backend decode failed
FailedBefore(u) ==
  {t \in Threads \ {u} :
     /\ Returned(t) /\ threads[t].cache = threads[u].cache
     /\ threads[t].idx = threads[u].idx
     /\ threads[t].decoded /\ ~threads[t].result /\ ~threads[t].disturbed}

\* C3: when the backend's decode fails, the call returns failure, writes nothing to
\* the caller's buffers and clears the reservation: the index is carried by no slot
\* afterwards, and a later load_frame of it decodes through the backend again.
C3_DecodeFailure ==
  [][\A t \in Threads :
       /\ (copy_and_release(t) /\ threads[t].decoded /\ ~threads[t].result)
            => /\ ~threads'[t].result
               /\ threads'[t].out = NoData
               /\ Carrying(caches'[threads[t].cache], threads[t].idx) = {}
       /\ (find_or_reserve(t) /\ FailedBefore(t) # {})
            => ~threads'[t].in_cache]_vars

\* The frame count of the trajectory behind handle h
NumFrames(h) == backends[loaded_trajectories[find_loaded_trajectory(h)].traj].file.frames

\* C9: load_frame with an index outside 0..num_frames-1 returns failure at once:
\* no abort, no backend fetch or decode, no slot reserved or populated.
C9_IndexOutOfRange ==
  [][\A t \in Threads, h \in HandleArgs, idx \in IdxArgs :
       (/\ load_frame(t, h, idx)
        /\ Registered(h)
        /\ idx \notin 0..(NumFrames(h) - 1))
       => /\ status' = "running"
          /\ threads'[t].pc = "done"
          /\ ~threads'[t].result /\ ~threads'[t].decoded
          /\ caches' = caches]_vars

\* C10: in every reachable state the populated frame indices of the cache of an
\* open trajectory lie in 0..num_frames-1, and no index is populated in two slots.
C10_CacheContents ==
  \A i \in 0..(num_loaded_trajectories - 1) :
    LET e == loaded_trajectories[i]
        c == caches[e.cache]
        populated == {s \in DOMAIN c.slots : c.slots[s].populated}
    IN /\ \A s \in populated :
            c.slots[s].frame_index \in 0..(backends[e.traj].file.frames - 1)
       /\ \A s \in populated, r \in populated :
            c.slots[s].frame_index = c.slots[r].frame_index => s = r

(* ---------------------- claims on the cache and settings ---------------- *)
\* C11: in every reachable state the number of cached frames num_cache_frames(h)
\* reports for an open trajectory is at most the capacity fixed at open,
\* min(num_frames, clamp(configured bytes, 4 MiB, physical_ram / 4) / (atoms * 3 * 4)).
C11_CacheBound ==
  \A i \in 0..(num_loaded_trajectories - 1) :
    LET e == loaded_trajectories[i]
        atom_count == MolAtomCount(e.mol)
        available_bytes == Min(Max(ConfiguredCacheBytes, 4 * 1024 * 1024),
                               PhysicalRamQuarter)
        capacity == Min(backends[e.traj].file.frames,
                        available_bytes \div (atom_count * 3 * 4))
    IN md_frame_cache_num_frames(caches[e.cache]) <= capacity

\* A cache smaller than its trajectory is full after two different frames were loaded
C11_Witness ==
  \E i \in 0..(num_loaded_trajectories - 1) :
    LET e == loaded_trajectories[i]
        c == caches[e.cache]
    IN /\ Len(c.slots) < backends[e.traj].file.frames
       /\ md_frame_cache_num_frames(c) = Len(c.slots)
       /\ \E t \in Threads, u \in Threads :
            /\ Returned(t) /\ Returned(u) /\ threads[t].idx # threads[u].idx
            /\ threads[t].cache = e.cache /\ threads[u].cache = e.cache
            /\ threads[t].decoded /\ threads[u].decoded

\* C12: clear_cache(h) on a registered handle leaves num_cache_frames(h) = 0, and
\* the next load_frame(h, i) is a cache miss: it decodes through the backend again.
C12_ClearCache ==
  [][/\ \A h \in HandleArgs :
          (clear_cache(h) /\ Registered(h))
          => /\ ret'.returned /\ ret'.value = TRUE
             /\ md_frame_cache_num_frames(
                  caches'[loaded_trajectories'[find_loaded_trajectory(h)].cache]) = 0
     /\ \A u \in Threads :
          (/\ find_or_reserve(u)
           /\ ret.op = "clear_cache" /\ ret.value = TRUE
           /\ threads[u].h = ret.h /\ n_loads = ret.loads + 1)
          => ~threads'[u].in_cache]_vars

\* The entry set_recenter_target(h), set_deperiodize(h) and clear_cache(h) work on
EntryOf(h) == loaded_trajectories[find_loaded_trajectory(h)]

\* C13: set_recenter_target and set_deperiodize leave every cache as it is (the
\* cached frame count and every slot), so a later hit on an index cached before
\* the change returns what the earlier load returned; a frame decoded after the
\* change is transformed with the mask and the flag last set for its handle.
C13_NoInvalidate ==
  [][/\ \A h \in HandleArgs :
          (\/ \E mask \in MaskArgs : set_recenter_target(h, mask)
           \/ \E d \in BOOLEAN : set_deperiodize(h, d))
          => caches' = caches
     /\ \A u \in Threads :
          /\ (copy_and_release(u) /\ threads[u].in_cache /\ DecodedBefore(u) # {})
               => \A t \in DecodedBefore(u) : threads'[u].out = threads[t].out
          /\ (backend_decode(u) /\ Registered(threads[u].h) /\ threads'[u].result)
               => LET e == EntryOf(threads[u].h)
                  IN caches'[e.cache].slots[threads[u].slot].data
                       = Transform(BackendFrame(backends[e.traj].file, threads[u].idx),
                                   e.recenter_target, e.deperiodize)]_vars

\* C14: after set_recenter_target(h, null) that followed an earlier target, every
\* frame decoded for h is left without recenter translation: the slot holds the
\* backend's frame, deperiodized or not, as if no mask had ever been set.
C14_NullTarget ==
  [][\A u \in Threads :
       (/\ backend_decode(u) /\ threads'[u].result
        /\ ret.op = "set_recenter_target" /\ ret.value = TRUE
        /\ ret.h = threads[u].h /\ ret.mask = "null" /\ ret.prior)
       => LET e == EntryOf(threads[u].h)
              decoded == BackendFrame(backends[e.traj].file, threads[u].idx)
          IN caches'[InstEntry(u).cache].slots[threads[u].slot].data
               \in {Transform(decoded, {}, d) : d \in BOOLEAN}]_vars

\* C15: while the recenter mask of h is empty and its deperiodize flag is false, a
\* load_frame(h, i) that returns success returns exactly the header and coordinates
\* of the backend's decode of frame i, on a cache miss and on a cache hit alike.
C15_Identity ==
  [][\A u \in Threads :
       (/\ copy_and_release(u) /\ threads'[u].result
        /\ Registered(threads[u].h)
        /\ EntryOf(threads[u].h).recenter_target = {}
        /\ ~EntryOf(threads[u].h).deperiodize)
       => LET f == backends[EntryOf(threads[u].h).traj].file
          IN /\ BackendDecodeOk(f, threads[u].idx)
             /\ threads'[u].out = CopyOut(BackendFrame(f, threads[u].idx))]_vars

\* C16: recenter on a single atom.  When a load_frame call that decoded its frame
\* returns success for a registered handle whose recenter mask is {a} and whose
\* deperiodize flag is false, the returned position of atom a is box_ext/2 when
\* the frame has a unit cell and the origin when it has none, and every atom was
\* translated from the backend's position by the same vector.
C16_SingleAtom ==
  [][\A u \in Threads :
       (/\ copy_and_release(u) /\ threads'[u].result /\ threads[u].decoded
        /\ Registered(threads[u].h)
        /\ Cardinality(EntryOf(threads[u].h).recenter_target) = 1
        /\ ~EntryOf(threads[u].h).deperiodize)
       => LET f == backends[EntryOf(threads[u].h).traj].file
              raw == BackendFrame(f, threads[u].idx)
              a == CHOOSE b \in EntryOf(threads[u].h).recenter_target : TRUE
              out == threads'[u].out
          IN /\ out.written
             /\ DOMAIN out.x = DOMAIN raw.x
             /\ a \in DOMAIN out.x
             /\ out.x[a] = (IF raw.header.box # 0 THEN raw.header.box \div 2 ELSE 0)
             /\ \A b \in DOMAIN out.x : out.x[b] - raw.x[b] = out.x[a] - raw.x[a]]_vars

\* A spelling in lower case
LowerCase(tok) == [i \in DOMAIN tok |-> to_lower(tok[i])]

\* C17: extension matching is case-insensitive in every lookup path.  Whatever the
\* spelling of the extension, load::mol::loader_from_ext and
\* load::traj::loader_from_ext return, init_loader_state stores and open_file with
\* a null backend resolves the backend they do for the lower-case spelling.
C17_CaseInsensitive ==
  [][/\ ret'.op = "mol::loader_from_ext"
          => ret'.value = mol_loader_from_table(LowerCase(ret'.ext))
     /\ ret'.op = "traj::loader_from_ext"
          => ret'.value = traj_loader_from_table(LowerCase(ret'.ext))
     /\ (ret'.op = "init_loader_state" /\ ret'.ext # <<>>)
          => LET m == mol_loader_from_ext(LowerCase(ret'.ext))
                 t == traj_loader_from_ext(LowerCase(ret'.ext))
             IN /\ state'.mol_loader
                     = (IF m = MOL_LOADER_UNKNOWN THEN "NULL" ELSE mol_loader_api[m])
                /\ state'.traj_loader
                     = (IF t = TRAJ_LOADER_UNKNOWN THEN "NULL" ELSE traj_loader_api[t])
     /\ \A f \in CaseFiles :
          open_file(f, "NULL", 1)
            => ((ret'.value = NULL /\ ret'.log = LogUnsupported)
                  <=> ResolveLoader([f EXCEPT !.ext = LowerCase(f.ext)], "NULL") = "NULL")]_vars

\* At least one backend is registered for the extension, whatever its spelling
Identified(ext) ==
  \E i \in 1..NUM_ENTRIES :
    /\ table_ext[i] = LowerCase(ext)
    /\ (table_mol_loader[i] # "NULL" \/ table_traj_loader[i] # "NULL")

\* C18: init_loader_state returns success iff a molecule or a trajectory backend
\* was identified for the path's extension, and then the state holds one; when
\* the extension is missing or unknown it returns failure, no allocation was
\* made and the state holds no backend, no argument blob and no flags.
C18_InitResult ==
  ret.op = "init_loader_state"
    => /\ ret.value = Identified(ret.ext)
       /\ ret.value = (state.mol_loader # "NULL" \/ state.traj_loader # "NULL")
       /\ ~ret.value => (state = ZeroState /\ blobs = ret.before)

\* init_loader_state has failed on an unregistered extension while an earlier
\* argument blob was outstanding
C18_Witness ==
  /\ ret.op = "init_loader_state" /\ ~ret.value
  /\ ret.ext = <<"t", "x", "t">>
  /\ \E b \in BlobIds : blobs[b].alloc

\* C19: the preflight of init_loader_state.  For a LAMMPS (data) file either the
\* atom format is known and the state carries a newly allocated argument blob
\* encoding it, with RequiresDialogue clear, or the format is unknown and
\* RequiresDialogue is set with no blob allocated; for every other backend
\* nothing is allocated and no flag is set.
C19_Preflight ==
  (ret.op = "init_loader_state" /\ ret.value)
    => LET known == ret.format # "MD_LAMMPS_ATOM_FORMAT_UNKNOWN"
           flag == (state.flags \div LoaderStateFlag_RequiresDialogue) % 2 = 1
           blob == /\ state.data_ptr # NULL
                   /\ state.data_size # 0
                   /\ state.mol_loader_arg = state.data_ptr
                   /\ blobs[state.data_ptr] = [alloc |-> TRUE, arg |-> ret.format]
                   /\ ~ret.before[state.data_ptr].alloc
                   /\ \A b \in BlobIds \ {state.data_ptr} : blobs[b] = ret.before[b]
           nothing == /\ blobs = ret.before
                      /\ state.data_ptr = NULL /\ state.data_size = 0
                      /\ state.mol_loader_arg = NULL
       IN IF LowerCase(ret.ext) = <<"d", "a", "t", "a">>
          THEN /\ state.mol_loader = "md_lammps_molecule_api"
               /\ (known /\ blob /\ ~flag) \/ (~known /\ flag /\ nothing)
          ELSE nothing /\ state.flags = 0

\* init_loader_state has sniffed a known atom format in a file named *.DATA
C19_Witness ==
  /\ ret.op = "init_loader_state" /\ ret.value
  /\ ret.ext = <<"D", "A", "T", "A">>
  /\ ret.format = "full"
  /\ state.data_ptr # NULL

\* Allocations made on behalf of trajectories and not freed: handle structs,
\* backend instances and frame caches
Outstanding ==
  Cardinality({h \in Ids : trajs[h].alloc})
    + Cardinality({b \in Ids : backends[b].live})
    + Cardinality({c \in Ids : caches[c].live})

\* C20: close releases everything the trajectory allocated.  Whenever the process
\* runs and every handle open_file returned has been closed, no handle struct,
\* frame cache or backend instance is outstanding.
C20_CloseReleases ==
  (status = "running" /\ num_loaded_trajectories = 0) => Outstanding = 0

\* C21: fetch_frame_data returns 8 for every idx, writes the integer idx to the
\* buffer when one is given and nothing when it is null; decode_frame_data called
\* on the blob fetch_frame_data(idx) wrote takes the step load_frame(idx) takes,
\* and the steps that follow are those of a load_frame call (same result, same
\* effect on the cache).
C21_FetchBlob ==
  [][/\ ret'.op = "fetch_frame_data"
          => /\ ret'.value = 8
             /\ ret'.provided => (Len(ret'.out) = 8 /\ ReadInt64(ret'.out) = ret'.idx)
             /\ ~ret'.provided => ret'.out = <<>>
     /\ \A t \in Threads, h \in Ids :
          (/\ ret.op = "fetch_frame_data" /\ ret.provided
           /\ decode_frame_data(t, h, ret.out))
          => load_frame(t, h, ret.idx)]_vars

\* A decode_frame_data call on a fetched blob of a two-byte index has returned
C21_Witness ==
  /\ ret.op = "fetch_frame_data" /\ ret.provided /\ ret.idx = 300
  /\ \E t \in Threads : threads[t].pc = "done" /\ threads[t].idx = 300

\* C22: in every reachable state the recenter mask of every open trajectory
\* references only atoms of its molecule: each set bit is in 0..atom_count-1.
C22_MaskValid ==
  \A i \in 0..(num_loaded_trajectories - 1) :
    loaded_trajectories[i].recenter_target
      \subseteq 0..(MolAtomCount(loaded_trajectories[i].mol) - 1)

\* C23: open_file with a molecule that has 0 atoms fails: it returns null and the
\* registry is as it was, also when the backend was created and reports 0 atoms.
C23_EmptyMolecule ==
  [][\A f \in EmptyFiles, la \in LoaderArgs :
       open_file(f, la, 3)
         => /\ ret'.returned /\ ret'.value = NULL
            /\ num_loaded_trajectories' = num_loaded_trajectories
            /\ loaded_trajectories' = loaded_trajectories
            /\ status' = status]_vars

\* C24: every successful open_file yields a fresh state whatever went before: an
\* empty recenter mask, deperiodize = false and an empty cache; so every load_frame
\* of frame i through a handle of a.xtc that was never reconfigured returns the
\* same coordinates, those of the backend's frame, whatever other trajectories
\* were opened, reconfigured or closed.
C24_FreshOpen ==
  [][/\ \A f \in FreshFiles :
          (open_file(f, "NULL", 1) /\ ret'.value # NULL)
            => LET e == loaded_trajectories'[num_loaded_trajectories]
               IN /\ e.key = ret'.value
                  /\ e.recenter_target = {}
                  /\ ~e.deperiodize
                  /\ md_frame_cache_num_frames(caches'[e.cache]) = 0
     /\ \A u \in Threads :
          (/\ copy_and_release(u) /\ threads'[u].result
           /\ Registered(threads[u].h)
           /\ ~OtherTrajectory(threads[u].h))
            => threads'[u].out
                 = CopyOut(BackendFrame(backends[EntryOf(threads[u].h).traj].file,
                                        threads[u].idx))]_vars

\* C25: for every open handle h the instance pointer stored in the handle is the
\* slot of the registry entry keyed by h, the entry set_recenter_target,
\* set_deperiodize, clear_cache and num_cache_frames find: it never refers to a
\* vacated slot or to another trajectory's entry.
C25_InstIsEntry ==
  \A h \in Ids :
    (trajs[h].alloc /\ find_loaded_trajectory(h) # -1)
      => /\ trajs[h].inst = find_loaded_trajectory(h)
         /\ trajs[h].inst < num_loaded_trajectories
         /\ loaded_trajectories[trajs[h].inst].key = h

\* C26: close(h) removes exactly the entry of h.  Every other open handle g is
\* still in the registry afterwards with its molecule, backend, recenter mask,
\* deperiodize flag and cache contents unchanged, h is not, and the count is one
\* less; and in every reachable state the registry holds between 0 and 8 entries
\* with pairwise distinct keys (a write past the end of the array leaves the
\* registry in no such state).
C26_CloseFrame ==
  /\ [](/\ status # "ub:open_file"
        /\ num_loaded_trajectories \in 0..ARRAY_SIZE
        /\ \A i, j \in 0..(num_loaded_trajectories - 1) :
             loaded_trajectories[i].key = loaded_trajectories[j].key => i = j)
  /\ [][\A h \in Ids :
          (close(h) /\ find_loaded_trajectory(h) # -1)
            => /\ num_loaded_trajectories' = num_loaded_trajectories - 1
               /\ \A j \in 0..(num_loaded_trajectories' - 1) :
                    loaded_trajectories'[j].key # h
               /\ \A i \in 0..(num_loaded_trajectories - 1) :
                    loaded_trajectories[i].key # h
                      => /\ \E j \in 0..(num_loaded_trajectories' - 1) :
                              loaded_trajectories'[j] = loaded_trajectories[i]
                         /\ caches'[loaded_trajectories[i].cache]
                              = caches[loaded_trajectories[i].cache]
                         /\ backends'[loaded_trajectories[i].traj]
                              = backends[loaded_trajectories[i].traj]]_vars

\* No slot of a live cache is locked by a writer or by readers
NoLockHeld ==
  \A c \in Ids :
    caches[c].live =>
      \A k \in DOMAIN caches[c].slots :
        caches[c].slots[k].writer = NoThread /\ caches[c].slots[k].readers = {}

\* C27: every decode_frame_data / load_frame call that starts eventually returns,
\* and once all calls have returned no slot lock is held.
C27_Returns ==
  /\ \A t \in Threads : [](InFlight(t) => <>(threads[t].pc = "done"))
  /\ [](AllIdle => NoLockHeld)

\* The slot thread t works on
SlotOf(t) == caches[InstEntry(t).cache].slots[threads[t].slot]

\* C28: a caller copies a slot's header and coordinates only while it holds the
\* slot's lock; a slot is written only by the caller that reserved it, under the
\* writer lock, and nobody reads it meanwhile; and the atom count of a returned
\* header is the length of the copied arrays.
C28_Locked ==
  /\ \A t \in Threads :
       /\ threads[t].pc = "decode" => SlotOf(t).writer = t
       /\ threads[t].pc = "copy"
            => /\ SlotOf(t).writer = t \/ t \in SlotOf(t).readers
               /\ SlotOf(t).writer \in {NoThread, t}
       /\ (threads[t].pc = "done" /\ threads[t].out.written)
            => DOMAIN threads[t].out.x = Tracked(threads[t].out.header.num_atoms)
  /\ \A c \in Ids :
       caches[c].live =>
         \A k \in DOMAIN caches[c].slots :
           caches[c].slots[k].writer # NoThread => caches[c].slots[k].readers = {}

\* A call is about to copy a frame out of the slot it holds while another call of
\* the same trajectory is decoding or waiting
C28_Witness ==
  \E t, u \in Threads :
    /\ t # u
    /\ threads[t].pc = "copy" /\ threads[t].result
    /\ threads[u].pc \in {"find", "decode"}
    /\ threads[u].cache = threads[t].cache

\* The blobs that are allocated
Allocated(bl) == {b \in BlobIds : bl[b].alloc}

\* C29: free_loader_state releases the argument blob exactly once.  After it
\* returns data_ptr and data_size are zero and no field of the state, mol_loader_arg
\* included, points to a blob that is not allocated; it frees the state's blob and
\* nothing else, and nothing at all for a state with no blob, as a second call
\* finds it.
C29_FreeOnce ==
  [][free_loader_state
       => /\ state'.data_ptr = NULL /\ state'.data_size = 0
          /\ state'.mol_loader_arg = NULL \/ state'.mol_loader_arg \in Allocated(blobs')
          /\ Allocated(blobs) \ Allocated(blobs')
               = IF state.data_size # 0 THEN {state.data_ptr} ELSE {}
          /\ Allocated(blobs') \subseteq Allocated(blobs)]_vars

\* C30: the frame cache of every open trajectory that has at least one frame has
\* at least one slot, whatever the atom count of its molecule.
C30_Capacity ==
  \A i \in 0..(num_loaded_trajectories - 1) :
    LET e == loaded_trajectories[i]
    IN (backends[e.traj].live /\ backends[e.traj].file.frames >= 1 /\ caches[e.cache].live)
         => Len(caches[e.cache].slots) >= 1

\* The grabs set in the state stored for the slider
Grabs ==
  IF SliderArgs.id \in DOMAIN range_slider_states
  THEN {f \in {"min_grab", "max_grab", "range_grab"} : range_slider_states[SliderArgs.id][f]}
  ELSE {}

\* Both values are in [v_min, v_max]
InRange(a, b) ==
  /\ SliderArgs.v_min <= a /\ a <= SliderArgs.v_max
  /\ SliderArgs.v_min <= b /\ b <= SliderArgs.v_max

\* Every update made while range_grab is set leaves both values in the range and
\* the width what it was when the drag started, wherever the mouse is
RangeDrag ==
  [][(ret'.op = "RangeSliderFloat" /\ ret'.branch = "range_grab")
       => LET st == range_slider_states[SliderArgs.id]
          IN /\ InRange(v1', v2')
             /\ v2' - v1' = st.v2_diff - st.v1_diff]_vars

\* C31: range-drag of the range slider.  Starting from v_min <= v1 <= v2 <= v_max
\* with v_min < v_max, every update made while range_grab is set keeps v1 and v2
\* in [v_min, v_max] and preserves the width v2 - v1 the range had when the drag
\* started, for every mouse position; and after every RangeSliderBehavior call at
\* most one of min_grab, max_grab and range_grab is set in the stored state.
C31_RangeDrag ==
  /\ RangeDrag
  /\ [](Cardinality(Grabs) <= 1)

====
